---------------------------- MODULE Spec2Model ----------------------------
(***************************************************************************)
(* Model of the scoring-and-selection engine of fpl_assistant.py:          *)
(* compute_fdr_for_team, generate_transfer_suggestions,                    *)
(* suggest_transfer_moves, suggest_chip_play and build_wildcard_team, and  *)
(* of a session in which main or the UI invokes them one after another.    *)
(*                                                                         *)
(* Money.  The program divides the API's integer tenths by 10.0 and then   *)
(* adds, subtracts and compares the results as Python floats (IEEE-754     *)
(* binary64, round to nearest, ties to even).  The model computes these    *)
(* operations bit for bit.  Every value that occurs is an integer multiple *)
(* of 2^-56 and smaller than 128 in magnitude (k / 10.0 with 1 <= k < 128  *)
(* is at least 2^-4, whose unit in the last place is 2^-56, and sums and   *)
(* differences of multiples of 2^-56 are multiples of 2^-56), so a float   *)
(* is held as a sign and a magnitude counted in units of 2^-56, the        *)
(* magnitude as three limbs of 21 bits <<hi, mid, lo>>.                    *)
(*                                                                         *)
(* Scores.  score = points_per_game * minutes_ratio / (fdr + 1e-3) is held *)
(* as an exact fraction and compared by cross multiplication.              *)
(*                                                                         *)
(* Sorting.  DataFrame.sort_values is called without kind=, which is       *)
(* numpy's quicksort and not a stable sort: rows of equal key may come out *)
(* in any order.  A loop over a sorted frame is modelled as taking, at     *)
(* each iteration, any row not yet visited whose key is extreme among the  *)
(* rows not yet visited; this generates exactly the sorted orders.         *)
(***************************************************************************)
EXTENDS Integers, Sequences, FiniteSets, TLC

(***************************************************************************)
(* IEEE-754 binary64 arithmetic on multiples of 2^-56 below 128            *)
(***************************************************************************)
LimbBits == 21
MantBits == 53
FracBits == 56

Base == 2 ^ LimbBits

RECURSIVE BitLen(_)
BitLen(n) == IF n = 0 THEN 0 ELSE 1 + BitLen(n \div 2)

MagBits(a) ==
    IF a[1] > 0 THEN 2 * LimbBits + BitLen(a[1])
    ELSE IF a[2] > 0 THEN LimbBits + BitLen(a[2])
    ELSE BitLen(a[3])

MagLt(a, b) ==
    \/ a[1] < b[1]
    \/ a[1] = b[1] /\ a[2] < b[2]
    \/ a[1] = b[1] /\ a[2] = b[2] /\ a[3] < b[3]

MagAdd(a, b) ==
    LET s3 == a[3] + b[3]
        s2 == a[2] + b[2] + (s3 \div Base)
        s1 == a[1] + b[1] + (s2 \div Base)
    IN  <<s1, s2 % Base, s3 % Base>>

\* a - b for a >= b
MagSub(a, b) ==
    LET d3 == a[3] - b[3]
        w3 == IF d3 < 0 THEN 1 ELSE 0
        d2 == a[2] - b[2] - w3
        w2 == IF d2 < 0 THEN 1 ELSE 0
        d1 == a[1] - b[1] - w2
    IN  <<d1, d2 + w2 * Base, d3 + w3 * Base>>

\* The magnitude a + f units, 0 <= f < 1, rounded to MantBits significant
\* bits, ties to even.  frac tells f: 0 (f = 0), 1 (f < 1/2), 2 (f = 1/2),
\* 3 (f > 1/2).
RoundMag(a, frac) ==
    LET d == MagBits(a) - MantBits
    IN  IF d <= 0
        THEN IF frac = 3 \/ (frac = 2 /\ a[3] % 2 = 1)
             THEN MagAdd(a, <<0, 0, 1>>)
             ELSE a
        ELSE LET p    == 2 ^ d
                 r    == a[3] % p
                 half == p \div 2
                 odd  == (a[3] \div p) % 2 = 1
                 cut  == <<a[1], a[2], a[3] - r>>
             IN  IF r > half \/ (r = half /\ (frac # 0 \/ odd))
                 THEN MagAdd(cut, <<0, 0, p>>)
                 ELSE cut

MagZero == <<0, 0, 0>>

FZero == [neg |-> FALSE, m |-> MagZero]

Mk(neg, m) == [neg |-> neg /\ m # MagZero, m |-> m]

\* k / n for integers 0 <= k < 1280, 0 < n < 1024: the float division
\* `now_cost / 10.0`, `bank / 10.0`
FDivInt(k, n) ==
    LET t1 == k * 2 ^ (FracBits - 2 * LimbBits)
        q1 == t1 \div n
        t2 == (t1 % n) * Base
        q2 == t2 \div n
        t3 == (t2 % n) * Base
        q3 == t3 \div n
        r  == t3 % n
        frac == IF r = 0 THEN 0
                ELSE IF 2 * r < n THEN 1
                ELSE IF 2 * r = n THEN 2 ELSE 3
    IN  Mk(FALSE, RoundMag(<<q1, q2, q3>>, frac))

FNeg(x) == Mk(~x.neg, x.m)

\* x + y
FAdd(x, y) ==
    IF x.neg = y.neg
    THEN Mk(x.neg, RoundMag(MagAdd(x.m, y.m), 0))
    ELSE IF MagLt(x.m, y.m)
         THEN Mk(y.neg, RoundMag(MagSub(y.m, x.m), 0))
         ELSE Mk(x.neg, RoundMag(MagSub(x.m, y.m), 0))

\* x - y
FSub(x, y) == FAdd(x, FNeg(y))

\* x < y
FLt(x, y) ==
    IF x.neg # y.neg THEN x.neg
    ELSE IF x.neg THEN MagLt(y.m, x.m) ELSE MagLt(x.m, y.m)

\* x <= y
FLe(x, y) == ~FLt(y, x)


(***************************************************************************)
(* Exact fractions, for fixture difficulty averages and scores             *)
(***************************************************************************)
RECURSIVE Gcd(_, _)
Gcd(a, b) == IF b = 0 THEN a ELSE Gcd(b, a % b)

\* n / d in lowest terms, d > 0, n >= 0
Frac(n, d) == LET g == Gcd(n, d) IN [num |-> n \div g, den |-> d \div g]

FracAdd(x, y) == Frac(x.num * y.den + y.num * x.den, x.den * y.den)
FracMul(x, y) == Frac(x.num * y.num, x.den * y.den)
FracDiv(x, y) == Frac(x.num * y.den, x.den * y.num)
FracLt(x, y)  == x.num * y.den < y.num * x.den

(***************************************************************************)
(* Bounds of the inputs                                                    *)
(***************************************************************************)
NPlayers == 4
NTeams == 2
NPositions == 2
MinCost == 35
MaxCost == 36
MaxForm == 1
MaxBank == 1
MaxTransfers == 2
MaxTopN == 2
MaxGameweek == 1
MaxFixtures == 2
NFixtureTeams == 3
FirstEvent == 6
LastEvent == 7
NScorePlayers == 3
MaxCalls == 3

TeamIds   == 1 .. NTeams
Positions == 1 .. NPositions
Costs     == MinCost .. MaxCost
Statuses  == {"a", "i"}
Forms     == 0 .. MaxForm

(***************************************************************************)
(* Program constants                                                       *)
(***************************************************************************)
\* `team_count[team_id] >= 3`, `team_counts[player["team"]] >= 3`
TeamLimit == 3
\* `weeks_ahead=6` at the call sites of compute_fdr_for_team
WeeksAhead == 6
\* `max(gameweek, 1) * 90`
MinutesPerGame == 90
\* position_requirements = {1: 2, 2: 5, 3: 5, 4: 3}
position_requirements == (1 :> 2) @@ (2 :> 5) @@ (3 :> 5) @@ (4 :> 3)
\* the keys of position_requirements, in the order the dict is iterated
PositionOrder == <<1, 2, 3, 4>>
\* 1e-3
Epsilon == Frac(1, 1000)
\* the defaults of suggest_chip_play
FdrThreshold == Frac(7, 2)
InjuryThreshold == 3

(***************************************************************************)
(* State                                                                   *)
(***************************************************************************)
VARIABLES
    op,               \* the operation that is invoked
    pc,               \* where the invocation stands: start, loop, done
    players_df,       \* bootstrap-static elements: the player pool
    fixtures_df,      \* the fixture list
    picks,            \* picks_data["picks"]: the owned identifiers
    entry_history,    \* picks_data["entry_history"]: bank and value, in tenths
    gameweek,
    max_transfers,
    top_n,
    team_id,          \* compute_fdr_for_team: the team asked for
    weeks_ahead,      \* compute_fdr_for_team, build_wildcard_team: the window
    fdr_threshold,    \* suggest_chip_play
    injury_threshold, \* suggest_chip_play
    merged,           \* the pool with the derived columns
    current_ids,      \* suggest_transfer_moves: the running owned set
    bank,             \* suggest_transfer_moves: the running budget
    team_count,       \* suggest_transfer_moves: owned players per team
    suggestions,      \* suggest_transfer_moves: the swaps recorded so far
    worst_seen,       \* the rows of worst_players iterated so far
    remaining_budget, \* build_wildcard_team
    team_counts,      \* build_wildcard_team: selected players per team
    selected_rows,    \* build_wildcard_team: the squad so far
    position,         \* build_wildcard_team: index into PositionOrder
    count,            \* build_wildcard_team: selected in this position
    pool_seen,        \* build_wildcard_team: rows of pool iterated so far
    top,              \* generate_transfer_suggestions: the result
    fdr,              \* compute_fdr_for_team: the result
    chip,             \* suggest_chip_play: the result
    first,            \* the first invocation of a session: inputs and result
    calls             \* the number of invocations started

inputs == <<op, players_df, fixtures_df, picks, entry_history, gameweek,
            max_transfers, top_n, team_id, weeks_ahead, fdr_threshold,
            injury_threshold>>
movesVars == <<current_ids, bank, team_count, suggestions, worst_seen>>
wildVars == <<remaining_budget, team_counts, selected_rows, position, count,
              pool_seen>>
session == <<first, calls>>
vars == <<inputs, pc, merged, movesVars, wildVars, top, fdr, chip, session>>

(***************************************************************************)
(* compute_fdr_for_team                                                    *)
(***************************************************************************)
RECURSIVE SumSeq(_)
SumSeq(s) == IF s = <<>> THEN 0 ELSE Head(s) + SumSeq(Tail(s))

MinEvent(fixtures) ==
    CHOOSE e \in {fixtures[i].event : i \in DOMAIN fixtures} :
        \A i \in DOMAIN fixtures : e <= fixtures[i].event

\* the loop over upcoming.iterrows()
RECURSIVE Difficulties(_, _)
Difficulties(team, rows) ==
    IF rows = <<>> THEN <<>>
    ELSE LET row == Head(rows)
             h == IF row.team_h = team
                  THEN <<row.team_h_difficulty>> ELSE <<>>
             a == IF row.team_a = team
                  THEN <<row.team_a_difficulty>> ELSE <<>>
         IN  h \o a \o Difficulties(team, Tail(rows))

\* Upcoming with the last round of the window let in: `<=` for `<`
UpcomingInclusive(fixtures, window) ==
    IF fixtures = <<>> THEN <<>>
    ELSE LET current_gw == MinEvent(fixtures)
             InWindow(row) == /\ row.event >= current_gw
                              /\ row.event <= current_gw + window
         IN  SelectSeq(fixtures, InWindow)

\* min() of an empty column is NaN, and every comparison with NaN is false:
\* no row is upcoming
Upcoming(fixtures, window) ==
    IF fixtures = <<>> THEN <<>>
    ELSE LET current_gw == MinEvent(fixtures)
             InWindow(row) == /\ row.event >= current_gw
                              /\ row.event < current_gw + window
         IN  SelectSeq(fixtures, InWindow)

compute_fdr_for_team(team, fixtures, window) ==
    LET difficulties == Difficulties(team, Upcoming(fixtures, window))
    IN  IF difficulties # <<>>
        THEN Frac(SumSeq(difficulties), Len(difficulties))
        ELSE Frac(0, 1)

(***************************************************************************)
(* The merged frame and the score                                          *)
(***************************************************************************)
max_minutes(gw) == (IF gw > 1 THEN gw ELSE 1) * MinutesPerGame

\* players_df with the columns fdr_next6 / fdr_next and minutes_ratio
Merged(players, fixtures, gw, window) ==
    [i \in DOMAIN players |->
        [id              |-> players[i].id,
         team            |-> players[i].team,
         element_type    |-> players[i].element_type,
         now_cost        |-> players[i].now_cost,
         status          |-> players[i].status,
         points_per_game |-> players[i].points_per_game,
         minutes         |-> players[i].minutes,
         fdr             |-> compute_fdr_for_team(players[i].team, fixtures,
                                                  window),
         minutes_ratio   |-> Frac(players[i].minutes, max_minutes(gw))]]

\* Score with the difficulty multiplied in: `*` for `/`
ScoreTimesFdr(row) ==
    FracMul(FracMul(Frac(row.points_per_game, 10), row.minutes_ratio),
            FracAdd(row.fdr, Epsilon))

\* (points_per_game * minutes_ratio) / (fdr + 1e-3); points_per_game is held
\* in tenths
Score(row) ==
    FracDiv(FracMul(Frac(row.points_per_game, 10), row.minutes_ratio),
            FracAdd(row.fdr, Epsilon))

Rows(frame) == {frame[i] : i \in DOMAIN frame}

\* now_cost / 10.0
Price(row) == FDivInt(row.now_cost, 10)

\* the rows of `rows` that can come first when `rows` is sorted by score,
\* descending
Best(rows) ==
    {r \in rows : \A q \in rows : ~FracLt(Score(r), Score(q))}

\* the rows of `rows` that can come first when `rows` is sorted by score,
\* ascending
Worst(rows) ==
    {r \in rows : \A q \in rows : ~FracLt(Score(q), Score(r))}

(***************************************************************************)
(* Inputs                                                                  *)
(*                                                                         *)
(* No operation depends on the order of the rows of players_df (filters    *)
(* work row by row and the order of equal keys after a sort is open), so   *)
(* the pools are listed up to reordering: a pool is a non-decreasing       *)
(* sequence of kind numbers, a kind number encoding a player's columns and *)
(* whether the manager owns the player.  Identifiers are the row numbers.  *)
(* Cost, form and team vary over the available players of the first        *)
(* position; the players of another position and the unavailable players   *)
(* come at the lowest cost, without form and in the first team.            *)
(***************************************************************************)
NCosts == MaxCost - MinCost + 1
NForms == MaxForm + 1
KindCount == 2 * 2 * NPositions * NForms * NCosts * NTeams

KindOwned(k)  == k % 2 = 1
KindStatus(k) == IF (k \div 2) % 2 = 0 THEN "a" ELSE "i"
KindPos(k)    == 1 + ((k \div 4) % NPositions)
KindForm(k)   == ((k \div (4 * NPositions)) % NForms)
KindCost(k)   == MinCost + ((k \div (4 * NPositions * NForms)) % NCosts)
KindTeam(k)   == 1 + ((k \div (4 * NPositions * NForms * NCosts)) % NTeams)

Kinds ==
    {k \in 0 .. KindCount - 1 :
        (KindPos(k) # 1 \/ KindStatus(k) # "a")
            => KindForm(k) = 0 /\ KindCost(k) = MinCost /\ KindTeam(k) = 1}

RECURSIVE KindSeqs(_, _, _)
KindSeqs(kinds, n, lo) ==
    IF n = 0 THEN {<<>>}
    ELSE UNION {{<<k>> \o s : s \in KindSeqs(kinds, n - 1, k)} :
                    k \in {j \in kinds : j >= lo}}

Pools(kinds) == UNION {KindSeqs(kinds, n, 0) : n \in 0 .. NPlayers}

\* the pools in which the manager owns TeamLimit equal available players of
\* the first position and the first team, with two more players of any kind:
\* the rosters on which a purchase can meet a full team while the player
\* sold leaves another team
FullTeamKinds ==
    {k \in Kinds : /\ KindOwned(k) /\ KindStatus(k) = "a"
                   /\ KindPos(k) = 1 /\ KindTeam(k) = 1}
FullTeamPools ==
    {[i \in 1 .. TeamLimit |-> k] \o s :
        k \in FullTeamKinds, s \in KindSeqs(Kinds, 2, 0)}

PlayersOf(ks, gw) ==
    [i \in DOMAIN ks |->
        [id              |-> i,
         team            |-> KindTeam(ks[i]),
         element_type    |-> KindPos(ks[i]),
         now_cost        |-> KindCost(ks[i]),
         status          |-> KindStatus(ks[i]),
         points_per_game |-> KindForm(ks[i]),
         minutes         |-> gw * MinutesPerGame]]

PicksOf(ks) == {i \in DOMAIN ks : KindOwned(ks[i])}

Fixture(e, h, a, dh, da) ==
    [event |-> e, team_h |-> h, team_a |-> a,
     team_h_difficulty |-> dh, team_a_difficulty |-> da]

\* the fixture list of the operations that score players: two rounds
\* between teams 1 and 2
ScoringFixtures ==
    {<<Fixture(FirstEvent, 1, 2, 2, 4), Fixture(LastEvent, 2, 1, 3, 3)>>}

\* the fixtures compute_fdr_for_team is asked about: two distinct teams,
\* ratings within 1..5
FixtureTeams == 1 .. NFixtureTeams
HomeRatings == {2, 3}
AwayRatings == {4, 5}
Fixtures ==
    {Fixture(e, h, a, dh, da) :
        e \in FirstEvent .. LastEvent,
        h \in FixtureTeams, a \in FixtureTeams,
        dh \in HomeRatings, da \in AwayRatings}

FixtureLists ==
    UNION {[1 .. n -> {f \in Fixtures : f.team_h # f.team_a}] :
              n \in 0 .. MaxFixtures}

Windows == {0, 1, WeeksAhead}

\* every team has at most TeamLimit owned players: the game's own rule for
\* a manager's picks
LegalPicks(players, owned) ==
    \A t \in TeamIds :
        Cardinality({i \in owned : players[i].team = t}) <= TeamLimit

\* fdr_threshold: float = 3.5, injury_threshold: int = 3
DefaultThresholds ==
    /\ fdr_threshold = FdrThreshold
    /\ injury_threshold = InjuryThreshold

Idle ==
    /\ pc = "start"
    /\ merged = <<>>
    /\ current_ids = {}
    /\ bank = FZero
    /\ team_count = [t \in TeamIds |-> 0]
    /\ suggestions = <<>>
    /\ worst_seen = <<>>
    /\ remaining_budget = FZero
    /\ team_counts = [t \in TeamIds |-> 0]
    /\ selected_rows = <<>>
    /\ position = 1
    /\ count = 0
    /\ pool_seen = {}
    /\ top = <<>>
    /\ fdr = Frac(0, 1)
    /\ chip = ""
    /\ first = <<>>
    /\ calls = 1

InitMoves ==
    /\ op = "moves"
    /\ gameweek \in 1 .. MaxGameweek
    /\ fixtures_df \in ScoringFixtures
    /\ \E ks \in Pools(Kinds) \cup FullTeamPools :
          /\ players_df = PlayersOf(ks, gameweek)
          /\ picks = PicksOf(ks)
    /\ LegalPicks(players_df, picks)
    /\ entry_history \in [bank : 0 .. MaxBank, value : {0}]
    /\ max_transfers \in 0 .. MaxTransfers
    /\ top_n = 0
    /\ team_id = 1
    /\ weeks_ahead = WeeksAhead
    /\ DefaultThresholds
    /\ Idle

\* build_wildcard_team ignores the picks; the budgets are those that pay for
\* 0 .. NPlayers players of the lowest cost, with or without a bank
InitWild ==
    /\ op = "wildcard"
    /\ gameweek \in 1 .. MaxGameweek
    /\ fixtures_df \in ScoringFixtures
    /\ \E ks \in Pools({k \in Kinds : ~KindOwned(k)}) :
          players_df = PlayersOf(ks, gameweek)
    /\ picks = {}
    /\ entry_history \in
          [bank : 0 .. MaxBank, value : {n * MinCost : n \in 0 .. NPlayers}]
    /\ max_transfers = 0
    /\ top_n = 0
    /\ team_id = 1
    /\ weeks_ahead = WeeksAhead
    /\ DefaultThresholds
    /\ Idle

InitTargets ==
    /\ op = "targets"
    /\ gameweek \in 1 .. MaxGameweek
    /\ fixtures_df \in ScoringFixtures
    /\ \E ks \in Pools(Kinds) :
          /\ players_df = PlayersOf(ks, gameweek)
          /\ picks = PicksOf(ks)
    /\ entry_history = [bank |-> 0, value |-> 0]
    /\ max_transfers = 0
    /\ top_n \in 0 .. MaxTopN
    /\ team_id = 1
    /\ weeks_ahead = WeeksAhead
    /\ DefaultThresholds
    /\ Idle

\* the pools on which scores are compared: NScorePlayers available players
\* that nobody owns, whose form (negative, zero or positive), minutes (none,
\* half or all of the minutes played so far) and team vary freely
ScoreForms == -1 .. MaxForm + 1
ScoreMinutes(gw) ==
    {0, (gw * MinutesPerGame) \div 2, gw * MinutesPerGame}
ScorePlayer(t, f, m) ==
    [id |-> 0, team |-> t, element_type |-> 1, now_cost |-> MinCost,
     status |-> "a", points_per_game |-> f, minutes |-> m]
ScorePools(gw) ==
    {[i \in 1 .. NScorePlayers |-> [rows[i] EXCEPT !.id = i]] :
        rows \in [1 .. NScorePlayers ->
                    {ScorePlayer(t, f, m) :
                        t \in TeamIds, f \in ScoreForms,
                        m \in ScoreMinutes(gw)}]}

\* the two rounds between teams 1 and 2, or one round in which team 2 does
\* not play (its difficulty is then 0.0)
ScoreFixtures ==
    ScoringFixtures \cup {<<Fixture(FirstEvent, 1, NFixtureTeams, 2, 4)>>}

\* generate_transfer_suggestions asked for every player of such a pool
InitScore ==
    /\ op = "targets"
    /\ gameweek \in 1 .. MaxGameweek
    /\ fixtures_df \in ScoreFixtures
    /\ players_df \in ScorePools(gameweek)
    /\ picks = {}
    /\ entry_history = [bank |-> 0, value |-> 0]
    /\ max_transfers = 0
    /\ top_n = NScorePlayers
    /\ team_id = 1
    /\ weeks_ahead = WeeksAhead
    /\ DefaultThresholds
    /\ Idle

InitFdr ==
    /\ op = "fdr"
    /\ gameweek = 1
    /\ fixtures_df \in FixtureLists
    /\ players_df = <<>>
    /\ picks = {}
    /\ entry_history = [bank |-> 0, value |-> 0]
    /\ max_transfers = 0
    /\ top_n = 0
    /\ team_id \in FixtureTeams
    /\ weeks_ahead \in Windows
    /\ DefaultThresholds
    /\ Idle

\* the thresholds suggest_chip_play is called with: the defaults, and lower
\* ones that small rosters reach
FdrThresholds == {Frac(0, 1), Frac(3, 1), FdrThreshold}
InjuryThresholds == {1, InjuryThreshold}

InitChip ==
    /\ op = "chip"
    /\ gameweek \in 1 .. MaxGameweek
    /\ fixtures_df \in ScoringFixtures
    /\ \E ks \in Pools(Kinds) :
          /\ players_df = PlayersOf(ks, gameweek)
          /\ picks = PicksOf(ks)
    /\ entry_history = [bank |-> 0, value |-> 0]
    /\ max_transfers = 0
    /\ top_n = 0
    /\ team_id = 1
    /\ weeks_ahead = WeeksAhead
    /\ fdr_threshold \in FdrThresholds
    /\ injury_threshold \in InjuryThresholds
    /\ Idle

Init == InitMoves \/ InitWild \/ InitTargets \/ InitFdr \/ InitChip

(***************************************************************************)
(* compute_fdr_for_team, called on its own                                 *)
(***************************************************************************)
FdrRun ==
    /\ op = "fdr"
    /\ pc = "start"
    /\ pc' = "done"
    /\ fdr' = compute_fdr_for_team(team_id, fixtures_df, weeks_ahead)
    /\ UNCHANGED <<inputs, merged, movesVars, wildVars, top, chip, session>>

(***************************************************************************)
(* suggest_transfer_moves                                                  *)
(***************************************************************************)
\* current_df: the rows of the pool whose id is in the picks
current_df(frame) == {r \in Rows(frame) : r.id \in picks}

\* WorstCount with .head(max_transfers) left out
WorstCountNoHead == Cardinality(current_df(players_df))

\* the number of rows of worst_players = sort_values(...).head(max_transfers)
WorstCount ==
    IF max_transfers < Cardinality(current_df(players_df))
    THEN max_transfers ELSE Cardinality(current_df(players_df))

\* the rows of current_df that worst_players.iterrows() has not yielded yet
NotSeen ==
    {r \in current_df(merged) :
        \A k \in DOMAIN worst_seen : worst_seen[k] # r.id}

\* the loop runs while worst_players has rows left
LoopOrDone(seen) == IF Len(seen) < WorstCount THEN "loop" ELSE "done"

\* MovesBegin with `suggestions` not created by the call: a list that
\* outlives the call, such as a mutable default argument or a module global
MovesBeginKeepsSwaps ==
    /\ op = "moves"
    /\ pc = "start"
    /\ pc' = LoopOrDone(<<>>)
    /\ merged' = Merged(players_df, fixtures_df, gameweek, WeeksAhead)
    /\ bank' = FDivInt(entry_history.bank, 10)
    /\ current_ids' = picks
    /\ team_count' =
          [t \in TeamIds |->
              Cardinality({r \in current_df(players_df) : r.team = t})]
    /\ suggestions' = suggestions
    /\ worst_seen' = <<>>
    /\ UNCHANGED <<inputs, wildVars, top, fdr, chip, session>>

MovesBegin ==
    /\ op = "moves"
    /\ pc = "start"
    /\ pc' = LoopOrDone(<<>>)
    /\ merged' = Merged(players_df, fixtures_df, gameweek, WeeksAhead)
    /\ bank' = FDivInt(entry_history.bank, 10)
    /\ current_ids' = picks
    /\ team_count' =
          [t \in TeamIds |->
              Cardinality({r \in current_df(players_df) : r.team = t})]
    /\ suggestions' = <<>>
    /\ worst_seen' = <<>>
    /\ UNCHANGED <<inputs, wildVars, top, fdr, chip, session>>

\* Candidates with the status filter left out
CandidatesAnyStatus(row, owned, available_budget) ==
    {c \in Rows(merged) :
        /\ c.element_type = row.element_type
        /\ c.id \notin owned
        /\ FLe(Price(c), available_budget)}

\* same position, not currently owned, available, cost within budget
Candidates(row, owned, available_budget) ==
    {c \in Rows(merged) :
        /\ c.element_type = row.element_type
        /\ c.id \notin owned
        /\ c.status = "a"
        /\ FLe(Price(c), available_budget)}

\* TeamFull off by one: `>` for `>=`
TeamFullLate(counts, team) == counts[team] > TeamLimit

\* `if team_count[team_id] >= 3: continue`
TeamFull(counts, team) == counts[team] >= TeamLimit

\* the rows that can be the first of the candidates, sorted by
\* candidate_score descending, whose team is not full
FirstFitting(candidates, counts) ==
    Best({c \in candidates : ~TeamFull(counts, c.team)})

\* bank += sell_cost - buy_cost
NewBank(old, sell_cost, buy_cost) == FAdd(old, FSub(sell_cost, buy_cost))

\* NewTeamCount with the decrement of the seller's team left out
NewTeamCountNoSell(counts, sell_team, buy_team) ==
    [counts EXCEPT ![buy_team] = @ + 1]

\* team_count[row["team"]] -= 1; team_count[selected["team"]] += 1
NewTeamCount(counts, sell_team, buy_team) ==
    LET less == [counts EXCEPT ![sell_team] = @ - 1]
    IN  [less EXCEPT ![buy_team] = @ + 1]

\* current_ids.remove(sell_id); current_ids.add(buy_id)
NewCurrentIds(owned, sell_id, buy_id) == (owned \ {sell_id}) \cup {buy_id}

\* `if candidates.empty: continue`
MovesSkipEmpty(row) ==
    /\ Candidates(row, current_ids, FAdd(bank, Price(row))) = {}
    /\ UNCHANGED <<current_ids, bank, team_count, suggestions>>

\* MovesSkipFull with the player given up all the same: the updates of an
\* accepted swap, without a purchase, ahead of the `continue`
MovesSkipFullSells(row) ==
    LET candidates == Candidates(row, current_ids, FAdd(bank, Price(row)))
    IN  /\ candidates # {}
        /\ FirstFitting(candidates, team_count) = {}
        /\ current_ids' = current_ids \ {row.id}
        /\ team_count' = [team_count EXCEPT ![row.team] = @ - 1]
        /\ bank' = FAdd(bank, Price(row))
        /\ UNCHANGED suggestions

\* `if selected_candidate is None: continue`
MovesSkipFull(row) ==
    LET candidates == Candidates(row, current_ids, FAdd(bank, Price(row)))
    IN  /\ candidates # {}
        /\ FirstFitting(candidates, team_count) = {}
        /\ UNCHANGED <<current_ids, bank, team_count, suggestions>>

MovesAccept(row) ==
    LET sell_cost  == Price(row)
        candidates == Candidates(row, current_ids, FAdd(bank, sell_cost))
    IN  \E selected_candidate \in FirstFitting(candidates, team_count) :
          LET buy_cost == Price(selected_candidate)
          IN  /\ suggestions' =
                    Append(suggestions,
                           [sell  |-> row.id,
                            buy   |-> selected_candidate.id,
                            delta |-> FSub(buy_cost, sell_cost)])
              /\ bank' = NewBank(bank, sell_cost, buy_cost)
              /\ current_ids' =
                    NewCurrentIds(current_ids, row.id, selected_candidate.id)
              /\ team_count' =
                    NewTeamCount(team_count, row.team, selected_candidate.team)

\* one iteration of `for _, row in worst_players.iterrows()`; the function
\* returns when worst_players has no row left
MovesIter ==
    /\ op = "moves"
    /\ pc = "loop"
    /\ \E row \in Worst(NotSeen) :
          /\ \/ MovesSkipEmpty(row)
             \/ MovesSkipFull(row)
             \/ MovesAccept(row)
          /\ worst_seen' = Append(worst_seen, row.id)
          /\ pc' = LoopOrDone(worst_seen')
    /\ UNCHANGED <<inputs, merged, wildVars, top, fdr, chip, session>>

(***************************************************************************)
(* build_wildcard_team                                                     *)
(***************************************************************************)
\* available = merged[merged["status"] == "a"]
available == {r \in Rows(merged) : r.status = "a"}

\* pool = available[available["element_type"] == position]
pool == {r \in available : r.element_type = PositionOrder[position]}

needed == position_requirements[PositionOrder[position]]

\* PoolNotSeen over pool.head(needed): only the first rows of the pool are
\* iterated
PoolNotSeenHead ==
    IF Cardinality(pool_seen) >= needed THEN {}
    ELSE {r \in pool : r.id \notin pool_seen}

\* the rows of pool that pool.iterrows() has not yielded yet
PoolNotSeen == {r \in pool : r.id \notin pool_seen}

WildBegin ==
    /\ op = "wildcard"
    /\ pc = "start"
    /\ pc' = "loop"
    /\ merged' = Merged(players_df, fixtures_df, gameweek, weeks_ahead)
    /\ remaining_budget' =
          FAdd(FDivInt(entry_history.value, 10),
               FDivInt(entry_history.bank, 10))
    /\ team_counts' = [t \in TeamIds |-> 0]
    /\ selected_rows' = <<>>
    /\ position' = 1
    /\ count' = 0
    /\ pool_seen' = {}
    /\ UNCHANGED <<inputs, movesVars, top, fdr, chip, session>>

\* TooDear with the comparison turned round
TooDearFlipped(price, budget) == FLt(price, budget)

\* `if price > remaining_budget: continue`
TooDear(price, budget) == FLt(budget, price)

\* one iteration of `for _, player in pool.iterrows()`
WildStep ==
    /\ op = "wildcard"
    /\ pc = "loop"
    /\ count < needed
    /\ \E player \in Best(PoolNotSeen) :
          LET price == Price(player)
          IN  /\ pool_seen' = pool_seen \cup {player.id}
              /\ \/ /\ TooDear(price, remaining_budget)
                    /\ UNCHANGED <<remaining_budget, team_counts,
                                   selected_rows, count>>
                 \/ /\ ~TooDear(price, remaining_budget)
                    /\ TeamFull(team_counts, player.team)
                    /\ UNCHANGED <<remaining_budget, team_counts,
                                   selected_rows, count>>
                 \/ /\ ~TooDear(price, remaining_budget)
                    /\ ~TeamFull(team_counts, player.team)
                    /\ selected_rows' = Append(selected_rows, player.id)
                    /\ remaining_budget' = FSub(remaining_budget, price)
                    /\ team_counts' =
                          [team_counts EXCEPT ![player.team] = @ + 1]
                    /\ count' = count + 1
    /\ UNCHANGED <<inputs, pc, merged, movesVars, position, top, fdr, chip,
                   session>>

\* the pass of a position ends when its quota is filled or its pool is
\* exhausted
PassEnded == count >= needed \/ PoolNotSeen = {}

\* the next key of position_requirements, or the end of the outer loop
WildNextPosition ==
    /\ op = "wildcard"
    /\ pc = "loop"
    /\ PassEnded
    /\ pc' = IF position = Len(PositionOrder) THEN "done" ELSE "loop"
    /\ position' = IF position = Len(PositionOrder) THEN position
                   ELSE position + 1
    /\ count' = IF position = Len(PositionOrder) THEN count ELSE 0
    /\ pool_seen' = IF position = Len(PositionOrder) THEN pool_seen ELSE {}
    /\ UNCHANGED <<inputs, merged, movesVars, remaining_budget, team_counts,
                   selected_rows, top, fdr, chip, session>>

(***************************************************************************)
(* generate_transfer_suggestions                                           *)
(***************************************************************************)
\* Eligible with the owned players let through
EligibleWithOwned(frame, current_elements) ==
    {r \in Rows(frame) : r.status = "a"}

\* merged[(~merged["id"].isin(current_elements)) & (merged["status"] == "a")]
Eligible(frame, current_elements) ==
    {r \in Rows(frame) : r.id \notin current_elements /\ r.status = "a"}

\* the orders sort_values("transfer_score", ascending=False) can give
RECURSIVE SortedDescending(_)
SortedDescending(rows) ==
    IF rows = {} THEN {<<>>}
    ELSE UNION {{<<r>> \o s : s \in SortedDescending(rows \ {r})} :
                    r \in Best(rows)}

\* .head(n)
HeadOf(s, n) == SubSeq(s, 1, IF n < Len(s) THEN n ELSE Len(s))

TargetsRun ==
    /\ op = "targets"
    /\ pc = "start"
    /\ pc' = "done"
    /\ merged' = Merged(players_df, fixtures_df, gameweek, WeeksAhead)
    /\ \E sorted \in SortedDescending(Eligible(merged', picks)) :
          top' = [i \in DOMAIN HeadOf(sorted, top_n) |->
                     [Rank   |-> i,
                      id     |-> sorted[i].id,
                      status |-> sorted[i].status,
                      Score  |-> Score(sorted[i])]]
    /\ UNCHANGED <<inputs, movesVars, wildVars, fdr, chip, session>>

(***************************************************************************)
(* suggest_chip_play                                                       *)
(***************************************************************************)
\* current_df["fdr_next6"]: the difficulty of the row's team
fdr_next6(row) == compute_fdr_for_team(row.team, fixtures_df, WeeksAhead)

RECURSIVE FdrSum(_)
FdrSum(rows) ==
    IF rows = {} THEN Frac(0, 1)
    ELSE LET r == CHOOSE x \in rows : TRUE
         IN  FracAdd(fdr_next6(r), FdrSum(rows \ {r}))

\* current_df["fdr_next6"].mean() if not current_df.empty else 0.0
avg_fdr ==
    IF current_df(players_df) # {}
    THEN FracDiv(FdrSum(current_df(players_df)),
                 Frac(Cardinality(current_df(players_df)), 1))
    ELSE Frac(0, 1)

\* current_df[current_df["status"] != "a"]
unavailable == {r \in current_df(players_df) : r.status # "a"}

\* ChipSignal with `>` for `>=` in the difficulty test
ChipSignalStrict ==
    IF \/ Cardinality(unavailable) >= injury_threshold
       \/ FracLt(fdr_threshold, avg_fdr)
    THEN "wildcard" ELSE "None"

\* "wildcard", or None
ChipSignal ==
    IF \/ Cardinality(unavailable) >= injury_threshold
       \/ ~FracLt(avg_fdr, fdr_threshold)
    THEN "wildcard" ELSE "None"

ChipRun ==
    /\ op = "chip"
    /\ pc = "start"
    /\ pc' = "done"
    /\ chip' = ChipSignal
    /\ UNCHANGED <<inputs, merged, movesVars, wildVars, top, fdr, session>>

(***************************************************************************)
(* A session: the operations invoked one after another, as main and the    *)
(* UI do.  What an invocation left in the variables stays there until a    *)
(* later invocation writes it.                                             *)
(***************************************************************************)
\* the pool of a session: three available players of the first position
\* with three different scores, so that no sort meets equal keys
SessionPlayers(gw) ==
    <<[id |-> 1, team |-> 1, element_type |-> 1, now_cost |-> MaxCost,
       status |-> "a", points_per_game |-> 1, minutes |-> gw * MinutesPerGame],
      [id |-> 2, team |-> 2, element_type |-> 1, now_cost |-> MinCost,
       status |-> "a", points_per_game |-> 1, minutes |-> gw * MinutesPerGame],
      [id |-> 3, team |-> 1, element_type |-> 1, now_cost |-> MinCost,
       status |-> "a", points_per_game |-> 0, minutes |-> gw * MinutesPerGame]>>

SessionPicks == {{}, {3}, {2, 3}}

\* the arguments and fetched data of one invocation
Call(o, owned, history, transfers, n, team) ==
    [op |-> o, players_df |-> SessionPlayers(1),
     fixtures_df |-> CHOOSE f \in ScoringFixtures : TRUE,
     picks |-> owned, entry_history |-> history, gameweek |-> 1,
     max_transfers |-> transfers, top_n |-> n, team_id |-> team,
     weeks_ahead |-> WeeksAhead, fdr_threshold |-> FdrThreshold,
     injury_threshold |-> InjuryThreshold]

SessionCalls ==
    {Call("moves", o, [bank |-> MaxBank, value |-> 0], t, 0, 1) :
        o \in SessionPicks, t \in 1 .. MaxTransfers}
    \cup {Call("wildcard", o, [bank |-> MaxBank, value |-> v * MinCost], 0, 0, 1) :
        o \in SessionPicks, v \in 1 .. 2}
    \cup {Call("targets", o, [bank |-> 0, value |-> 0], 0, n, 1) :
        o \in SessionPicks, n \in 1 .. MaxTopN}
    \cup {Call("chip", o, [bank |-> 0, value |-> 0], 0, 0, 1) :
        o \in SessionPicks}
    \cup {Call("fdr", {}, [bank |-> 0, value |-> 0], 0, 0, t) :
        t \in TeamIds}

\* the inputs of the invocation under way, and its result
InputsNow ==
    [op |-> op, players_df |-> players_df, fixtures_df |-> fixtures_df,
     picks |-> picks, entry_history |-> entry_history, gameweek |-> gameweek,
     max_transfers |-> max_transfers, top_n |-> top_n, team_id |-> team_id,
     weeks_ahead |-> weeks_ahead, fdr_threshold |-> fdr_threshold,
     injury_threshold |-> injury_threshold]

Output ==
    CASE op = "moves" -> suggestions
      [] op = "wildcard" -> selected_rows
      [] op = "targets" -> top
      [] op = "chip" -> chip
      [] op = "fdr" -> fdr

InitSession ==
    /\ \E c \in SessionCalls :
          /\ op = c.op
          /\ players_df = c.players_df
          /\ fixtures_df = c.fixtures_df
          /\ picks = c.picks
          /\ entry_history = c.entry_history
          /\ gameweek = c.gameweek
          /\ max_transfers = c.max_transfers
          /\ top_n = c.top_n
          /\ team_id = c.team_id
          /\ weeks_ahead = c.weeks_ahead
          /\ fdr_threshold = c.fdr_threshold
          /\ injury_threshold = c.injury_threshold
    /\ Idle

\* an invocation has returned and the next one is made
NextCall ==
    /\ pc = "done"
    /\ calls < MaxCalls
    /\ \E c \in SessionCalls :
          /\ op' = c.op
          /\ players_df' = c.players_df
          /\ fixtures_df' = c.fixtures_df
          /\ picks' = c.picks
          /\ entry_history' = c.entry_history
          /\ gameweek' = c.gameweek
          /\ max_transfers' = c.max_transfers
          /\ top_n' = c.top_n
          /\ team_id' = c.team_id
          /\ weeks_ahead' = c.weeks_ahead
          /\ fdr_threshold' = c.fdr_threshold
          /\ injury_threshold' = c.injury_threshold
    /\ pc' = "start"
    /\ calls' = calls + 1
    /\ first' = IF calls = 1 THEN [in |-> InputsNow, out |-> Output]
                 ELSE first
    /\ UNCHANGED <<merged, movesVars, wildVars, top, fdr, chip>>

(***************************************************************************)
(* Specifications                                                          *)
(***************************************************************************)
NextMoves == MovesBegin \/ MovesIter
NextWild == WildBegin \/ WildStep \/ WildNextPosition
Next == NextMoves \/ NextWild \/ TargetsRun \/ FdrRun \/ ChipRun

Spec == Init /\ [][Next]_vars
SpecMoves == InitMoves /\ [][NextMoves]_vars
SpecWild == InitWild /\ [][NextWild]_vars
SpecTargets == InitTargets /\ [][TargetsRun]_vars
SpecFdr == InitFdr /\ [][FdrRun]_vars
SpecScore == InitScore /\ [][TargetsRun]_vars
SpecChip == InitChip /\ [][ChipRun]_vars
SpecSession == InitSession /\ [][Next \/ NextCall]_vars

(***************************************************************************)
(* Properties                                                              *)
(***************************************************************************)
Running(o) == op = o /\ pc # "start"

\* the owned players of a team, counted on the running owned set
OwnedOfTeam(t) == {r \in Rows(merged) : r.id \in current_ids /\ r.team = t}

\* the places of the squad held by a team, by a position
SquadOfTeam(t) ==
    {i \in DOMAIN selected_rows : merged[selected_rows[i]].team = t}
SquadOfPosition(e) ==
    {i \in DOMAIN selected_rows : merged[selected_rows[i]].element_type = e}

\* C1: after every accepted swap of suggest_transfer_moves, started on a
\* roster with at most 3 owned players per team, every team has at most 3
\* owned players; and no team has more than 3 players in the squad of
\* build_wildcard_team.
C1_PerTeamCap ==
    /\ Running("moves") =>
          \A t \in TeamIds : /\ Cardinality(OwnedOfTeam(t)) <= 3
                             /\ team_count[t] <= 3
    /\ Running("wildcard") =>
          \A t \in TeamIds : Cardinality(SquadOfTeam(t)) <= 3

\* a swap has been accepted that brought the buyer's team to 3 owned players
C1_Witness ==
    /\ Running("moves")
    /\ suggestions # <<>>
    /\ Cardinality(OwnedOfTeam(
          merged[suggestions[Len(suggestions)].buy].team)) = 3

\* C2: started with a non-negative bank, the running budget of
\* suggest_transfer_moves is non-negative after every accepted swap.
C2_BudgetNonNegative == Running("moves") => ~bank.neg

\* C3: no player identifier appears twice in the swaps of one run of
\* suggest_transfer_moves: none sold twice, none bought twice, and none
\* both sold and bought.
C3_NoIdentifierTwice ==
    Running("moves") =>
        \A i, j \in DOMAIN suggestions :
            /\ suggestions[i].sell # suggestions[j].buy
            /\ i # j => /\ suggestions[i].sell # suggestions[j].sell
                        /\ suggestions[i].buy # suggestions[j].buy

\* C4: in every swap of suggest_transfer_moves the bought player has the
\* position of the sold player and a higher score than the sold player.
C4_SamePositionHigherScore ==
    Running("moves") =>
        \A i \in DOMAIN suggestions :
            LET sold   == merged[suggestions[i].sell]
                bought == merged[suggestions[i].buy]
            IN  /\ bought.element_type = sold.element_type
                /\ FracLt(Score(sold), Score(bought))

\* C5: the output of generate_transfer_suggestions holds no owned player
\* and no player whose status is not 'a'.
C5_RankerExclusion ==
    Running("targets") =>
        \A i \in DOMAIN top :
            /\ top[i].id \notin picks
            /\ players_df[top[i].id].status = "a"

\* the ranker returned rows while an owned player and an unavailable player
\* of the pool were left out
C5_Witness ==
    /\ Running("targets")
    /\ top # <<>>
    /\ \E r \in Rows(players_df) : r.id \in picks /\ r.status = "a"
    /\ \E r \in Rows(players_df) : r.id \notin picks /\ r.status = "i"

\* C6: a player whose status is not 'a' is never bought by
\* suggest_transfer_moves and never in the squad of build_wildcard_team.
C6_UnavailableNeverChosen ==
    /\ Running("moves") =>
          \A i \in DOMAIN suggestions :
              players_df[suggestions[i].buy].status = "a"
    /\ Running("wildcard") =>
          \A i \in DOMAIN selected_rows :
              players_df[selected_rows[i]].status = "a"

\* a swap was accepted while an unavailable player of the sold player's
\* position, not owned and within the budget, was in the pool
C6_Witness ==
    /\ Running("moves")
    /\ Len(suggestions) = 1
    /\ \E r \in Rows(merged) :
          /\ r.status = "i"
          /\ r.id \notin picks
          /\ r.element_type = merged[suggestions[1].sell].element_type
          /\ r.now_cost <= merged[suggestions[1].sell].now_cost

RECURSIVE SquadCost(_)
SquadCost(ids) ==
    IF ids = <<>> THEN 0
    ELSE players_df[Head(ids)].now_cost + SquadCost(Tail(ids))

\* C7: in build_wildcard_team the remaining budget is non-negative after
\* every acceptance, and the costs of the squad sum to at most the squad
\* valuation plus the bank.
C7_SquadWithinBudget ==
    Running("wildcard") =>
        /\ ~remaining_budget.neg
        /\ SquadCost(selected_rows)
              <= entry_history.value + entry_history.bank

\* the squad was returned with players in it and an available player left
\* out for its price
C7_Witness ==
    /\ op = "wildcard"
    /\ pc = "done"
    /\ selected_rows # <<>>
    /\ \E r \in available :
          /\ \A i \in DOMAIN selected_rows : selected_rows[i] # r.id
          /\ TooDear(Price(r), remaining_budget)

\* C8: the squad has at most 2, 5, 5 and 3 players of the four positions;
\* and when the pass of a position ends below its quota, every available
\* player of the position that was not selected costs more than the
\* remaining budget or belongs to a team with 3 selected players.
C8_SquadCardinality ==
    Running("wildcard") =>
        /\ Cardinality(SquadOfPosition(1)) <= 2
        /\ Cardinality(SquadOfPosition(2)) <= 5
        /\ Cardinality(SquadOfPosition(3)) <= 5
        /\ Cardinality(SquadOfPosition(4)) <= 3
        /\ (PassEnded /\ count < needed) =>
              \A r \in pool :
                  (\A i \in DOMAIN selected_rows : selected_rows[i] # r.id)
                      => \/ TooDear(Price(r), remaining_budget)
                         \/ team_counts[r.team] >= 3

\* the pass of the first position ended with one player selected and
\* another left out
C8_Witness ==
    /\ Running("wildcard")
    /\ pc = "loop"
    /\ position = 1
    /\ PassEnded
    /\ count = 1
    /\ Cardinality(pool) > 1

\* the fixtures of team_id whose round lies in [min round, min round + window)
RoundsOf(fixtures) == {fixtures[i].event : i \in DOMAIN fixtures}
InWindowOf(t, fixtures, window) ==
    {i \in DOMAIN fixtures :
        /\ \E e \in RoundsOf(fixtures) :
              /\ \A e2 \in RoundsOf(fixtures) : e <= e2
              /\ e <= fixtures[i].event
              /\ fixtures[i].event < e + window
        /\ t \in {fixtures[i].team_h, fixtures[i].team_a}}

\* the rating of the side the team plays on
SideRating(t, f) ==
    IF f.team_h = t THEN f.team_h_difficulty ELSE f.team_a_difficulty

RECURSIVE RatingSum(_, _, _)
RatingSum(t, fixtures, is) ==
    IF is = {} THEN 0
    ELSE LET i == CHOOSE x \in is : TRUE
         IN  SideRating(t, fixtures[i]) + RatingSum(t, fixtures, is \ {i})

\* C9: compute_fdr_for_team returns the mean of the side-specific ratings
\* of the team's fixtures in [min round, min round + window), 0.0 when there
\* is none, and 2.5 for the fixtures (6: 1 v 2, 3/4), (7: 1 v 3, 2/5),
\* window 6 and team 1.
C9_FdrIsWindowMean ==
    (op = "fdr" /\ pc = "done") =>
        LET is == InWindowOf(team_id, fixtures_df, weeks_ahead)
        IN  /\ is = {} => fdr.num = 0
            /\ is # {} =>
                  /\ fdr.num * Cardinality(is)
                        = RatingSum(team_id, fixtures_df, is) * fdr.den
                  /\ fdr.den > 0
            /\ ( /\ fixtures_df = <<Fixture(6, 1, 2, 3, 4),
                                    Fixture(7, 1, 3, 2, 5)>>
                 /\ weeks_ahead = 6
                 /\ team_id = 1 )
                  => 2 * fdr.num = 5 * fdr.den

\* the aggregator has answered the scenario of the claim
C9_Witness ==
    /\ op = "fdr"
    /\ pc = "done"
    /\ fixtures_df = <<Fixture(6, 1, 2, 3, 4), Fixture(7, 1, 3, 2, 5)>>
    /\ weeks_ahead = 6
    /\ team_id = 1

\* the candidates of the first row of worst_players, as the first iteration
\* saw them
FirstCandidates ==
    Candidates(merged[worst_seen[1]], picks,
               FAdd(FDivInt(entry_history.bank, 10),
                    Price(merged[worst_seen[1]])))

Roster == {i \in DOMAIN players_df : i \in picks}

\* C10: suggest_transfer_moves considers the min(max_transfers, roster size)
\* lowest-scoring owned players, each once and in ascending score order,
\* whether or not swaps are found; it returns at most max_transfers swaps;
\* and with max_transfers = 2 and no candidate for the first worst player,
\* the second worst is still considered and at most 1 swap is returned.
C10_AttemptBound ==
    Running("moves") =>
        /\ Len(suggestions) <= Len(worst_seen)
        /\ Len(suggestions) <= max_transfers
        /\ \A i, j \in DOMAIN worst_seen :
              /\ worst_seen[i] \in Roster
              /\ i < j => /\ worst_seen[i] # worst_seen[j]
                          /\ ~FracLt(Score(merged[worst_seen[j]]),
                                     Score(merged[worst_seen[i]]))
        /\ \A i \in DOMAIN worst_seen :
              \A o \in Roster :
                  (\A j \in DOMAIN worst_seen : worst_seen[j] # o)
                      => ~FracLt(Score(merged[o]), Score(merged[worst_seen[i]]))
        /\ pc = "done" =>
              /\ Len(worst_seen) =
                    IF max_transfers < Cardinality(Roster)
                    THEN max_transfers ELSE Cardinality(Roster)
              /\ ( /\ max_transfers = 2
                   /\ Cardinality(Roster) >= 2
                   /\ FirstCandidates = {} )
                    => Len(worst_seen) = 2 /\ Len(suggestions) <= 1

\* with max_transfers = 2 the first worst player had no candidate and a swap
\* was found for the second
C10_Witness ==
    /\ op = "moves"
    /\ pc = "done"
    /\ max_transfers = 2
    /\ Len(worst_seen) = 2
    /\ FirstCandidates = {}
    /\ Len(suggestions) = 1

\* a row of the result of generate_transfer_suggestions, as scored
ScoredRow(i) == merged[top[i].id]
SameRatio(a, b) == a.minutes_ratio = b.minutes_ratio
Played(a) == a.minutes_ratio.num > 0

\* C11 as stated: for every fixed minutes_ratio and difficulty a larger form
\* gives a strictly larger score, and for every fixed form and minutes_ratio
\* a larger difficulty gives a strictly smaller score.
C11_StrictEverywhere ==
    Running("targets") =>
        \A i, j \in DOMAIN top :
            LET a == ScoredRow(i)
                b == ScoredRow(j)
            IN  /\ ( /\ SameRatio(a, b) /\ a.fdr = b.fdr
                     /\ a.points_per_game < b.points_per_game )
                      => FracLt(top[i].Score, top[j].Score)
                /\ ( /\ SameRatio(a, b)
                     /\ a.points_per_game = b.points_per_game
                     /\ FracLt(a.fdr, b.fdr) )
                      => FracLt(top[j].Score, top[i].Score)

\* C11, amended: for every fixed minutes_ratio greater than 0 and every
\* difficulty a larger form gives a strictly larger score, and for every
\* fixed form greater than 0 and minutes_ratio greater than 0 a larger
\* difficulty gives a strictly smaller score.
C11_StrictWherePlayed ==
    Running("targets") =>
        \A i, j \in DOMAIN top :
            LET a == ScoredRow(i)
                b == ScoredRow(j)
            IN  /\ ( /\ SameRatio(a, b) /\ a.fdr = b.fdr
                     /\ a.points_per_game < b.points_per_game
                     /\ Played(a) )
                      => FracLt(top[i].Score, top[j].Score)
                /\ ( /\ SameRatio(a, b)
                     /\ a.points_per_game = b.points_per_game
                     /\ FracLt(a.fdr, b.fdr)
                     /\ Played(a) /\ a.points_per_game > 0 )
                      => FracLt(top[j].Score, top[i].Score)

\* three players were scored: two that differ only in form and two that
\* differ only in difficulty, all with minutes and positive form
C11_Witness ==
    /\ Running("targets")
    /\ \E i, j, k \in DOMAIN top :
          LET a == ScoredRow(i)
              b == ScoredRow(j)
              c == ScoredRow(k)
          IN  /\ Played(a) /\ SameRatio(a, b) /\ SameRatio(b, c)
              /\ a.fdr = b.fdr
              /\ 0 < a.points_per_game
              /\ a.points_per_game < b.points_per_game
              /\ b.points_per_game = c.points_per_game
              /\ FracLt(b.fdr, c.fdr)

\* the eligible rows, and the number of rows asked for or at hand
EligibleRows == Eligible(merged, picks)
HeadCount ==
    IF top_n < Cardinality(EligibleRows) THEN top_n
    ELSE Cardinality(EligibleRows)
SameScore(x, y) == ~FracLt(x, y) /\ ~FracLt(y, x)

\* C12: generate_transfer_suggestions returns the first min(N, number of
\* eligible players) players of the eligible pool sorted by score in
\* descending order, players of equal score in their input order (the
\* identifiers are the row numbers of the input), with ranks 1, 2, ..., k.
C12_RankerOrdering ==
    Running("targets") =>
        /\ Len(top) = HeadCount
        /\ \A i \in DOMAIN top :
              /\ top[i].Rank = i
              /\ merged[top[i].id] \in EligibleRows
              /\ top[i].Score = Score(merged[top[i].id])
        /\ \A i, j \in DOMAIN top :
              i < j => \/ FracLt(top[j].Score, top[i].Score)
                       \/ /\ SameScore(top[i].Score, top[j].Score)
                          /\ top[i].id < top[j].id
        /\ \A i \in DOMAIN top :
              \A r \in EligibleRows :
                  (\A j \in DOMAIN top : top[j].id # r.id)
                      => \/ FracLt(Score(r), top[i].Score)
                         \/ /\ SameScore(Score(r), top[i].Score)
                            /\ top[i].id < r.id

\* the owned players that are not available, and the sum of the difficulties
\* of the owned players' teams
RosterOut == {i \in Roster : players_df[i].status # "a"}
RECURSIVE RosterFdr(_)
RosterFdr(is) ==
    IF is = {} THEN Frac(0, 1)
    ELSE LET i == CHOOSE x \in is : TRUE
         IN  FracAdd(compute_fdr_for_team(players_df[i].team, fixtures_df,
                                          WeeksAhead),
                     RosterFdr(is \ {i}))

\* mean difficulty >= threshold, the mean of no player being 0.0
MeanAtThreshold ==
    IF Roster = {} THEN fdr_threshold.num <= 0
    ELSE ~FracLt(RosterFdr(Roster),
                 FracMul(fdr_threshold, Frac(Cardinality(Roster), 1)))

C14_FailsFast ==
    (weeks_ahead <= 0 /\ fixtures_df # <<>>) => pc \in {"start", "error"}

\* no swap can be found for the owned player `id`: no available player of
\* the position that is not owned and within the budget belongs to a team
\* with fewer than 3 owned players
NoSwapFor(id) ==
    \A c \in Rows(merged) :
        ~ /\ c.element_type = merged[id].element_type
          /\ c.id \notin current_ids
          /\ c.status = "a"
          /\ FLe(Price(c), FAdd(bank, Price(merged[id])))
          /\ team_count[c.team] < 3

\* the iteration being taken visits a player for whom no swap can be found
SkipStep ==
    /\ op = "moves"
    /\ pc = "loop"
    /\ Len(worst_seen') = Len(worst_seen) + 1
    /\ NoSwapFor(worst_seen'[Len(worst_seen')])

\* C16: an iteration of suggest_transfer_moves that skips a worst player
\* (no candidate, or every candidate's team has 3 owned players) leaves the
\* owned set, the running budget, the per-team counts and the recorded
\* swaps unchanged, and the skipped player is still owned.
C16_SkipKeepsState ==
    [][SkipStep =>
          /\ current_ids' = current_ids
          /\ bank' = bank
          /\ team_count' = team_count
          /\ suggestions' = suggestions
          /\ worst_seen'[Len(worst_seen')] \in current_ids']_vars

\* the first worst player had candidates, all of full teams, and was
\* skipped: it is still owned and nothing was recorded
C16_Witness ==
    /\ Running("moves")
    /\ Len(worst_seen) = 1
    /\ FirstCandidates # {}
    /\ suggestions = <<>>
    /\ worst_seen[1] \in current_ids
    /\ bank = FDivInt(entry_history.bank, 10)

\* C17: in suggest_transfer_moves, every owned identifier being a player of
\* the pool, after any number of accepted swaps the count kept for each team
\* is the number of players of the team in the running owned set, and the
\* owned set has its initial size.
C17_Bookkeeping ==
    (Running("moves") /\ picks \subseteq DOMAIN players_df) =>
        /\ \A t \in TeamIds : team_count[t] = Cardinality(OwnedOfTeam(t))
        /\ Cardinality(current_ids) = Cardinality(picks)

\* two swaps were accepted, one of them between two teams
C17_Witness ==
    /\ Running("moves")
    /\ Len(suggestions) = 2
    /\ \E i \in DOMAIN suggestions :
          merged[suggestions[i].sell].team # merged[suggestions[i].buy].team

\* C15: an invocation on the inputs of the first invocation of the session
\* returns what the first invocation returned, whatever was invoked in
\* between: nothing an invocation leaves behind reaches a later one.
C15_SameInputsSameOutput ==
    (pc = "done" /\ first # <<>> /\ first.in = InputsNow) =>
        Output = first.out

\* the swap recommender returned the two swaps of the first invocation
\* again, after the squad builder had run in between
C15_Witness ==
    /\ pc = "done"
    /\ calls = MaxCalls
    /\ first # <<>>
    /\ first.in = InputsNow
    /\ op = "moves"
    /\ Len(suggestions) = 2
    /\ selected_rows # <<>>

=============================================================================
